---- MODULE Spec2Model ----
(***************************************************************************)
(* A model of the snmp_exporter configuration generator: the tree          *)
(* normalizer (PrepareTree), the OID minimizer (minimizeOids), the module  *)
(* generator (generateConfigModule) and the run that writes the result     *)
(* (main, GenerateConfig).                                                 *)
(*                                                                         *)
(* Strings that the program inspects character by character (OIDs, labels, *)
(* index names, display hints) are sequences of one-character strings, so  *)
(* that sorting, prefix tests, the hint pattern and label sanitization are *)
(* computed as the code computes them.  Tokens that are only compared for  *)
(* equality (syntax types, access tokens, textual conventions) are plain   *)
(* strings.  A pointer to a Node is a node identifier, and the tree is the *)
(* function from identifiers to node records.  Description, Help and       *)
(* FixedSize are carried through by the code untouched by any decision and *)
(* are left out.                                                           *)
(***************************************************************************)
EXTENDS Integers, Sequences, FiniteSets, TLC

VARIABLES
    nodes,        \* the object tree: node identifier -> Node
    nameToNode,   \* the Name Index: OID or label -> node identifier
    cfg,          \* generator.yml: module name -> ModuleConfig
    pc,           \* position of the run
    fatal,        \* the message of the log.Fatalf that ended the run, or ""
    outputConfig, \* config.Config built by GenerateConfig: module name -> Module
    written,      \* whether the output file has been written
    oidsIn,       \* argument of a stand-alone minimizeOids call
    oidsOut       \* its result

vars == <<nodes, nameToNode, cfg, pc, fatal, outputConfig, written, oidsIn, oidsOut>>

----------------------------------------------------------------------------
(* Strings                                                                 *)

Digits == {"0", "1", "2", "3", "4", "5", "6", "7", "8", "9"}

Letters ==
    {"a", "b", "c", "d", "e", "f", "g", "h", "i", "j", "k", "l", "m",
     "n", "o", "p", "q", "r", "s", "t", "u", "v", "w", "x", "y", "z",
     "A", "B", "C", "D", "E", "F", "G", "H", "I", "J", "K", "L", "M",
     "N", "O", "P", "Q", "R", "S", "T", "U", "V", "W", "X", "Y", "Z"}

\* The bytes the model's strings are made of, in byte order.
ByteOrder ==
    <<"-", ".", "0", "1", "2", "3", "4", "5", "6", "7", "8", "9",
      "A", "B", "C", "D", "E", "F", "G", "H", "I", "J", "K", "L", "M",
      "N", "O", "P", "Q", "R", "S", "T", "U", "V", "W", "X", "Y", "Z", "_",
      "a", "b", "c", "d", "e", "f", "g", "h", "i", "j", "k", "l", "m",
      "n", "o", "p", "q", "r", "s", "t", "u", "v", "w", "x", "y", "z">>

Ord(c) == CHOOSE i \in 1..Len(ByteOrder) : ByteOrder[i] = c

\* a < b in the byte-wise lexicographic order of Go strings.
RECURSIVE StrLess(_, _)
StrLess(a, b) ==
    IF b = <<>> THEN FALSE
    ELSE IF a = <<>> THEN TRUE
    ELSE IF Head(a) = Head(b) THEN StrLess(Tail(a), Tail(b))
    ELSE Ord(Head(a)) < Ord(Head(b))

\* strings.HasPrefix
HasPrefix(s, prefix) ==
    /\ Len(prefix) <= Len(s)
    /\ SubSeq(s, 1, Len(prefix)) = prefix

\* Insert s into the sorted sequence sorted.
RECURSIVE SortedInsert(_, _)
SortedInsert(sorted, s) ==
    IF sorted = <<>> THEN <<s>>
    ELSE IF StrLess(s, Head(sorted)) THEN <<s>> \o sorted
    ELSE <<Head(sorted)>> \o SortedInsert(Tail(sorted), s)

\* sort.Strings
RECURSIVE SortStrings(_)
SortStrings(strs) ==
    IF strs = <<>> THEN <<>>
    ELSE SortedInsert(SortStrings(Tail(strs)), Head(strs))

Range(f) == {f[x] : x \in DOMAIN f}

----------------------------------------------------------------------------
(* Label sanitizer                                                         *)

\* The complement of invalidLabelCharRE's character class.
ValidLabelChars == Letters \cup Digits \cup {"_"}

sanitizeLabelName(name) ==
    [i \in 1..Len(name) |-> IF name[i] \in ValidLabelChars THEN name[i] ELSE "_"]

----------------------------------------------------------------------------
(* Type/access classifier                                                  *)

metricType(t) ==
    IF t \in {"INTEGER", "GAUGE", "TIMETICKS", "UINTEGER", "UNSIGNED32", "INTEGER32"}
        THEN [t |-> "gauge", ok |-> TRUE]
    ELSE IF t \in {"COUNTER", "COUNTER64"} THEN [t |-> "counter", ok |-> TRUE]
    ELSE IF t \in {"OCTETSTR", "BITSTRING"} THEN [t |-> "OctetString", ok |-> TRUE]
    ELSE IF t = "IPADDR" THEN [t |-> "IpAddr", ok |-> TRUE]
    ELSE IF t = "NETADDR" THEN [t |-> "InetAddress", ok |-> TRUE]
    ELSE IF t \in {"PhysAddress48", "DisplayString"} THEN [t |-> t, ok |-> TRUE]
    ELSE [t |-> "", ok |-> FALSE]

metricAccess(a) ==
    a \in {"ACCESS_READONLY", "ACCESS_READWRITE", "ACCESS_CREATE", "ACCESS_NOACCESS"}

----------------------------------------------------------------------------
(* OID range minimizer                                                     *)

\* The loop body with the candidate tested without its trailing dot.
MinimizeStepNoDot(sorted, i, prevOid, minimized) ==
    LET oid == sorted[i]
    IN  IF ~HasPrefix(oid, prevOid) \/ prevOid = <<>>
        THEN [prevOid |-> oid \o <<".">>, minimized |-> Append(minimized, oid)]
        ELSE [prevOid |-> prevOid, minimized |-> minimized]

\* The loop body with a raw string prefix test, off the segment boundary.
MinimizeStepRawPrefix(sorted, i, prevOid, minimized) ==
    LET oid == sorted[i]
    IN  IF ~HasPrefix(oid, prevOid) \/ prevOid = <<>>
        THEN [prevOid |-> oid, minimized |-> Append(minimized, oid)]
        ELSE [prevOid |-> prevOid, minimized |-> minimized]

\* One iteration of the loop of minimizeOids.
MinimizeStep(sorted, i, prevOid, minimized) ==
    LET oid == sorted[i]
    IN  IF ~HasPrefix(oid \o <<".">>, prevOid) \/ prevOid = <<>>
        THEN [prevOid |-> oid \o <<".">>, minimized |-> Append(minimized, oid)]
        ELSE [prevOid |-> prevOid, minimized |-> minimized]

RECURSIVE MinimizeScan(_, _, _, _)
MinimizeScan(sorted, i, prevOid, minimized) ==
    IF i > Len(sorted) THEN minimized
    ELSE LET r == MinimizeStep(sorted, i, prevOid, minimized)
         IN  MinimizeScan(sorted, i + 1, r.prevOid, r.minimized)

minimizeOids(oids) == MinimizeScan(SortStrings(oids), 1, <<>>, <<>>)

----------------------------------------------------------------------------
(* The object tree                                                         *)

Root == 1

\* WalkNode: the nodes of the subtree of n in the order f is called on them.
RECURSIVE WalkNode(_, _)
RECURSIVE WalkChildren(_, _)
WalkNode(tree, n) == <<n>> \o WalkChildren(tree, tree[n].Children)
WalkChildren(tree, cs) ==
    IF cs = <<>> THEN <<>>
    ELSE WalkNode(tree, Head(cs)) \o WalkChildren(tree, Tail(cs))

sINTEGER == <<"I", "N", "T", "E", "G", "E", "R">>

\* The map from names and oids to nodes.
RECURSIVE BuildNameToNode(_, _, _, _)
BuildNameToNode(tree, order, i, m) ==
    IF i > Len(order) THEN m
    ELSE LET n == order[i]
             withOid == (tree[n].Oid :> n) @@ m
             withLabel == (tree[n].Label :> n) @@ withOid
         IN  BuildNameToNode(tree, order, i + 1, withLabel)

\* Fix indexes to "INTEGER" rather than an object name.
FixIndexes(tree, n) ==
    LET old == tree[n].Indexes
        indexes == [k \in 1..Len(old) |->
                       IF old[k] = sINTEGER THEN tree[n].Label ELSE old[k]]
    IN  [tree EXCEPT ![n].Indexes = indexes]

SetIndexes(tree, ids, indexes) ==
    [m \in DOMAIN tree |->
        IF m \in ids THEN [tree[m] EXCEPT !.Indexes = indexes] ELSE tree[m]]

CopyAugmentsSkipNode(names, tree, n) ==
    IF tree[n].Augments = <<>> THEN tree
    ELSE IF tree[n].Augments \notin DOMAIN names THEN tree
    ELSE LET augmented == names[tree[n].Augments]
         IN  SetIndexes(tree, Range(tree[n].Children), tree[augmented].Indexes)

\* Copy over indexes based on augments.
CopyAugments(names, tree, n) ==
    IF tree[n].Augments = <<>> THEN tree
    ELSE IF tree[n].Augments \notin DOMAIN names THEN tree
    ELSE LET augmented == names[tree[n].Augments]
         IN  SetIndexes(tree, Range(tree[n].Children) \cup {n},
                        tree[augmented].Indexes)

\* Copy indexes from table entries down to the entries.
CopyTableIndexes(tree, n) ==
    IF Len(tree[n].Indexes) # 0
    THEN SetIndexes(tree, Range(tree[n].Children), tree[n].Indexes)
    ELSE tree

\* displayStringRe.MatchString: some digit is followed by "a" or "t".
DisplayStringMatch(hint) ==
    \E k \in 1..(Len(hint) - 1) : hint[k] \in Digits /\ hint[k + 1] \in {"a", "t"}

\* Set type on MAC addresses and strings.
SetType(tree, n) ==
    LET byHint == IF tree[n].Hint = <<"1", "x", ":">> THEN "PhysAddress48"
                  ELSE tree[n].Type
        byRe == IF DisplayStringMatch(tree[n].Hint) THEN "DisplayString" ELSE byHint
        byTc == IF tree[n].TextualConvention = "DisplayString" THEN "DisplayString"
                ELSE byRe
    IN  [tree EXCEPT ![n].Type = byTc]

\* The callback of one pass of PrepareTree on node n.
Visit(pass, names, tree, n) ==
    CASE pass = "indexes" -> FixIndexes(tree, n)
      [] pass = "augments" -> CopyAugments(names, tree, n)
      [] pass = "tables" -> CopyTableIndexes(tree, n)
      [] pass = "types" -> SetType(tree, n)

\* One pass: the callback on the nodes of order from the i-th on, each call
\* seeing the tree as the calls before it left it.
RECURSIVE VisitAll(_, _, _, _, _)
VisitAll(pass, names, tree, order, i) ==
    IF i > Len(order) THEN tree
    ELSE VisitAll(pass, names, Visit(pass, names, tree, order[i]), order, i + 1)

\* PrepareTree: the tree as the passes leave it, and the map it returns.
PrepareTree(tree) ==
    LET order == WalkNode(tree, Root)
        names == BuildNameToNode(tree, order, 1, <<>>)
        fixed == VisitAll("indexes", names, tree, order, 1)
        augmented == VisitAll("augments", names, fixed, order, 1)
        copied == VisitAll("tables", names, augmented, order, 1)
        typed == VisitAll("types", names, copied, order, 1)
    IN  [nodes |-> typed, nameToNode |-> names]

----------------------------------------------------------------------------
(* Module generator                                                        *)

\* The walk loop skipping entries it cannot find instead of ending the run.
ResolveWalkSkip(walk, tree, names) ==
    LET found == SelectSeq(walk, LAMBDA w : w \in DOMAIN names)
    IN  [ok |-> TRUE,
         toWalk |-> [k \in 1..Len(found) |-> tree[names[found[k]]].Oid]]

\* cfg.Walk resolved through the Name Index; ok is false when the loop hits
\* log.Fatalf.
ResolveWalk(walk, tree, names) ==
    [ok |-> \A k \in 1..Len(walk) : walk[k] \in DOMAIN names,
     toWalk |-> [k \in 1..Len(walk) |->
                    IF walk[k] \in DOMAIN names THEN tree[names[walk[k]]].Oid
                    ELSE <<>>]]

\* The Index entries of node n, as far as the loop over n.Indexes gets: ok is
\* false when it returns early on an index it cannot find or cannot type.
RECURSIVE MetricIndexes(_, _, _, _, _)
MetricIndexes(tree, names, n, k, indexes) ==
    IF k > Len(tree[n].Indexes) THEN [ok |-> TRUE, Indexes |-> indexes]
    ELSE LET i == tree[n].Indexes[k]
         IN  IF i \notin DOMAIN names THEN [ok |-> FALSE, Indexes |-> indexes]
             ELSE LET typ == metricType(tree[names[i]].Type)
                  IN  IF ~typ.ok THEN [ok |-> FALSE, Indexes |-> indexes]
                      ELSE MetricIndexes(tree, names, n, k + 1,
                               Append(indexes, [Labelname |-> i, Type |-> typ.t]))

\* The callback without the test of the node's access.
VisitMetricAnyAccess(tree, names, metrics, n) ==
    LET typ == metricType(tree[n].Type)
        ixs == MetricIndexes(tree, names, n, 1, <<>>)
    IN  IF ~typ.ok THEN metrics
        ELSE IF ~ixs.ok THEN metrics
        ELSE Append(metrics,
                 [Name |-> sanitizeLabelName(tree[n].Label),
                  Oid |-> tree[n].Oid,
                  Type |-> typ.t,
                  Indexes |-> ixs.Indexes,
                  Lookups |-> <<>>,
                  RegexpExtracts |-> <<>>])

\* The callback of the metric walk on node n: metrics with n's Metric
\* appended, or metrics as it was.
VisitMetric(tree, names, metrics, n) ==
    LET typ == metricType(tree[n].Type)
        ixs == MetricIndexes(tree, names, n, 1, <<>>)
    IN  IF ~typ.ok THEN metrics
        ELSE IF ~metricAccess(tree[n].Access) THEN metrics
        ELSE IF ~ixs.ok THEN metrics
        ELSE Append(metrics,
                 [Name |-> sanitizeLabelName(tree[n].Label),
                  Oid |-> tree[n].Oid,
                  Type |-> typ.t,
                  Indexes |-> ixs.Indexes,
                  Lookups |-> <<>>,
                  RegexpExtracts |-> <<>>])

RECURSIVE VisitMetrics(_, _, _, _, _)
VisitMetrics(tree, names, metrics, order, k) ==
    IF k > Len(order) THEN metrics
    ELSE VisitMetrics(tree, names,
             VisitMetric(tree, names, metrics, order[k]), order, k + 1)

\* Find all the usable metrics: the loop over the minimized walk roots.
RECURSIVE FindMetrics(_, _, _, _, _)
FindMetrics(tree, names, toWalk, k, st) ==
    IF k > Len(toWalk) THEN st
    ELSE LET node == names[toWalk[k]]
         IN  FindMetrics(tree, names, toWalk, k + 1,
                 [st EXCEPT
                     !.needToWalk = @ \cup {tree[node].Oid},
                     !.Metrics = VisitMetrics(tree, names, @,
                                     WalkNode(tree, node), 1)])

\* The lookup body passing over a rule whose target it cannot find or type.
ApplyLookupSkipBad(tree, names, st, lookup, mi, ii) ==
    IF st.Metrics[mi].Indexes[ii].Labelname # lookup.OldIndex THEN st
    ELSE IF lookup.NewIndex \notin DOMAIN names THEN st
    ELSE LET indexNode == tree[names[lookup.NewIndex]]
             typ == metricType(indexNode.Type)
             labelname == sanitizeLabelName(indexNode.Label)
         IN  IF ~typ.ok THEN st
             ELSE [st EXCEPT
                      !.Metrics[mi].Indexes[ii].Labelname = labelname,
                      !.Metrics[mi].Lookups =
                          Append(@, [Labels |-> <<labelname>>,
                                     Labelname |-> labelname,
                                     Type |-> typ.t,
                                     Oid |-> indexNode.Oid]),
                      !.needToWalk = @ \cup {indexNode.Oid}]

\* The lookup body without the walk of the lookup OID.
ApplyLookupNoWalk(tree, names, st, lookup, mi, ii) ==
    IF st.Metrics[mi].Indexes[ii].Labelname # lookup.OldIndex THEN st
    ELSE IF lookup.NewIndex \notin DOMAIN names
         THEN [st EXCEPT !.fatal = "Unknown index"]
    ELSE LET indexNode == tree[names[lookup.NewIndex]]
             typ == metricType(indexNode.Type)
             labelname == sanitizeLabelName(indexNode.Label)
         IN  IF ~typ.ok THEN [st EXCEPT !.fatal = "Unknown index type"]
             ELSE [st EXCEPT
                      !.Metrics[mi].Indexes[ii].Labelname = labelname,
                      !.Metrics[mi].Lookups =
                          Append(@, [Labels |-> <<labelname>>,
                                     Labelname |-> labelname,
                                     Type |-> typ.t,
                                     Oid |-> indexNode.Oid])]

\* The lookup body leaving the old labelname around.
ApplyLookupKeepLabel(tree, names, st, lookup, mi, ii) ==
    IF st.Metrics[mi].Indexes[ii].Labelname # lookup.OldIndex THEN st
    ELSE IF lookup.NewIndex \notin DOMAIN names
         THEN [st EXCEPT !.fatal = "Unknown index"]
    ELSE LET indexNode == tree[names[lookup.NewIndex]]
             typ == metricType(indexNode.Type)
             labelname == sanitizeLabelName(indexNode.Label)
         IN  IF ~typ.ok THEN [st EXCEPT !.fatal = "Unknown index type"]
             ELSE [st EXCEPT
                      !.Metrics[mi].Lookups =
                          Append(@, [Labels |-> <<labelname>>,
                                     Labelname |-> labelname,
                                     Type |-> typ.t,
                                     Oid |-> indexNode.Oid]),
                      !.needToWalk = @ \cup {indexNode.Oid}]

\* The body of the innermost lookup loop: rule lookup against index ii of
\* metric mi.  fatal names the log.Fatalf that ended the run, if one did.
ApplyLookup(tree, names, st, lookup, mi, ii) ==
    IF st.Metrics[mi].Indexes[ii].Labelname # lookup.OldIndex THEN st
    ELSE IF lookup.NewIndex \notin DOMAIN names
         THEN [st EXCEPT !.fatal = "Unknown index"]
    ELSE LET indexNode == tree[names[lookup.NewIndex]]
             typ == metricType(indexNode.Type)
             labelname == sanitizeLabelName(indexNode.Label)
         IN  IF ~typ.ok THEN [st EXCEPT !.fatal = "Unknown index type"]
             ELSE [st EXCEPT
                      !.Metrics[mi].Indexes[ii].Labelname = labelname,
                      !.Metrics[mi].Lookups =
                          Append(@, [Labels |-> <<labelname>>,
                                     Labelname |-> labelname,
                                     Type |-> typ.t,
                                     Oid |-> indexNode.Oid]),
                      !.needToWalk = @ \cup {indexNode.Oid}]

\* Apply lookups: the three nested loops, from rule li, metric mi, index ii.
RECURSIVE ApplyLookups(_, _, _, _, _, _, _)
ApplyLookups(tree, names, st, lookups, li, mi, ii) ==
    IF st.fatal # "" \/ li > Len(lookups) THEN st
    ELSE IF mi > Len(st.Metrics) THEN
        ApplyLookups(tree, names, st, lookups, li + 1, 1, 1)
    ELSE IF ii > Len(st.Metrics[mi].Indexes) THEN
        ApplyLookups(tree, names, st, lookups, li, mi + 1, 1)
    ELSE ApplyLookups(tree, names,
             ApplyLookup(tree, names, st, lookups[li], mi, ii),
             lookups, li, mi, ii + 1)

\* The override loop's body for one key of cfg.Overrides.
ApplyOverride(metrics, name, params) ==
    [k \in 1..Len(metrics) |->
        IF name = metrics[k].Name \/ name = metrics[k].Oid
        THEN [metrics[k] EXCEPT !.RegexpExtracts = params.RegexpExtracts]
        ELSE metrics[k]]

\* Apply module config overrides, the keys ranged over in the order keys.
RECURSIVE ApplyOverrides(_, _, _, _)
ApplyOverrides(metrics, overrides, keys, k) ==
    IF k > Len(keys) THEN metrics
    ELSE ApplyOverrides(ApplyOverride(metrics, keys[k], overrides[keys[k]]),
                        overrides, keys, k + 1)

\* generateConfigModule up to the override loop, which ranges over the keys
\* of cfg.Overrides in the order keys: the metrics and the needed OIDs, or
\* the log.Fatalf that ended the run.
GenerateMetrics(c, tree, names, keys) ==
    LET walk == ResolveWalk(c.Walk, tree, names)
        start == [fatal |-> "", Metrics |-> <<>>, needToWalk |-> {}]
    IN  IF ~walk.ok THEN [start EXCEPT !.fatal = "Cannot find oid"]
        ELSE LET found == FindMetrics(tree, names, minimizeOids(walk.toWalk),
                                      1, start)
                 looked == ApplyLookups(tree, names, found, c.Lookups, 1, 1, 1)
             IN  IF looked.fatal # "" THEN looked
                 ELSE [looked EXCEPT
                          !.Metrics = ApplyOverrides(@, c.Overrides, keys, 1)]

\* The end of generateConfigModule: the keys of needToWalk, ranged over in
\* the order oids, minimized into out.Walk.
FinishModule(st, oids) ==
    [Metrics |-> st.Metrics, Walk |-> minimizeOids(oids)]

\* The orders a range over a map with the key set S can take.
Orders(S) ==
    {o \in [1..Cardinality(S) -> S] : \A x \in S : \E k \in DOMAIN o : o[k] = x}

----------------------------------------------------------------------------
(* The trees and configurations the runs are checked on                    *)

sMib      == <<"m", "i", "b">>
sIfTable  == <<"i", "f", "T", "a", "b", "l", "e">>
sIfEntry  == <<"i", "f", "E", "n", "t", "r", "y">>
sIfIndex  == <<"i", "f", "I", "n", "d", "e", "x">>
sIfDescr  == <<"i", "f", "-", "D", "e", "s", "c", "r">>
sIfXEntry == <<"i", "f", "X", "E", "n", "t", "r", "y">>
sIfName   == <<"i", "f", "N", "a", "m", "e">>
sGhost    == <<"g", "h", "o", "s", "t">>

NodeIds == 1..7

\* The tree GetMIBTree hands over: mib(1) { ifTable(1.2) { ifEntry(1.2.1) {
\* ifIndex(1.2.1.1) if-Descr(1.2.1.2) } } ifXEntry(1.20) { ifName(1.20.1) } },
\* each child's OID its parent's plus one segment.
BaseTree ==
    LET N(oid, label, type, access, hint, children) ==
            [Oid |-> oid, Label |-> label, Type |-> type, Access |-> access,
             Hint |-> hint, TextualConvention |-> "", Indexes |-> <<>>,
             Augments |-> <<>>, Children |-> children]
    IN  <<N(<<"1">>, sMib, "OTHER", "unknown", <<>>, <<2, 6>>),
          N(<<"1", ".", "2">>, sIfTable, "OTHER", "ACCESS_NOACCESS", <<>>, <<3>>),
          N(<<"1", ".", "2", ".", "1">>, sIfEntry, "OTHER", "ACCESS_NOACCESS",
            <<>>, <<4, 5>>),
          N(<<"1", ".", "2", ".", "1", ".", "1">>, sIfIndex, "INTEGER",
            "ACCESS_READONLY", <<"d">>, <<>>),
          N(<<"1", ".", "2", ".", "1", ".", "2">>, sIfDescr, "OCTETSTR",
            "ACCESS_READONLY", <<"2", "5", "5", "a">>, <<>>),
          N(<<"1", ".", "2", "0">>, sIfXEntry, "OTHER", "ACCESS_NOACCESS",
            <<>>, <<7>>),
          N(<<"1", ".", "2", "0", ".", "1">>, sIfName, "COUNTER",
            "ACCESS_READONLY", <<>>, <<>>)>>

\* Declared index lists and AUGMENTS clauses the normalizer is checked on.
PrepIndexes == {<<>>, <<sINTEGER, sIfIndex>>}
PrepAugments == {<<>>, sIfEntry, sIfIndex, sIfXEntry, sIfName, sGhost}
PrepAugmenting == {3, 5, 6, 7}

PrepTrees ==
    {[n \in NodeIds |->
        [BaseTree[n] EXCEPT !.Indexes = ix[n],
                            !.Augments = IF n \in PrepAugmenting THEN au[n] ELSE <<>>]] :
        ix \in [NodeIds -> PrepIndexes], au \in [PrepAugmenting -> PrepAugments]}

NoConfig == <<>>

SeqsUpTo(S, n) == UNION {[1..k -> S] : k \in 0..n}

\* Trees for generation: ifEntry declares indexes, ifXEntry augments
\* ifEntry, and ifName has access.
GenTree(indexes, access) ==
    [BaseTree EXCEPT ![3].Indexes = indexes,
                     ![6].Augments = sIfEntry,
                     ![7].Access = access]

GenTrees ==
    {GenTree(<<sIfIndex>>, "ACCESS_READONLY"),
     GenTree(<<sIfIndex>>, "ACCESS_NOTIFY"),
     GenTree(<<sIfIndex, sIfDescr>>, "ACCESS_READONLY"),
     GenTree(<<sINTEGER>>, "ACCESS_READONLY"),
     GenTree(<<sGhost>>, "ACCESS_READONLY")}

MaxWalk == 2
MaxLookups == 2

\* Walk entries: a label, two OIDs of which neither is below the other
\* though one is a string prefix of the other, and a name of no node.
WalkPool == {sIfEntry, <<"1", ".", "2">>, <<"1", ".", "2", "0">>, sGhost}

\* Lookup rules: onto a label that needs sanitizing, from that sanitized
\* label on, onto a name of no node, and onto a node of no output kind.
LookupPool ==
    {[OldIndex |-> sIfIndex, NewIndex |-> sIfDescr],
     [OldIndex |-> sanitizeLabelName(sIfDescr), NewIndex |-> sIfName],
     [OldIndex |-> sIfIndex, NewIndex |-> sGhost],
     [OldIndex |-> sIfDescr, NewIndex |-> sIfEntry]}

\* Overrides: none, or one keyed by the name of ifIndex's metric and one
\* keyed by its OID.
OverridePool ==
    LET byName == sIfIndex :> [RegexpExtracts |-> <<"byName">>]
        byOid == BaseTree[4].Oid :> [RegexpExtracts |-> <<"byOid">>]
    IN  {<<>>, byName @@ byOid}

GenModuleConfigs ==
    [Walk : SeqsUpTo(WalkPool, MaxWalk),
     Lookups : SeqsUpTo(LookupPool, MaxLookups),
     Overrides : OverridePool]

\* The module configurations of the runs over several modules.
RunModuleConfigs ==
    {[Walk |-> w, Lookups |-> l, Overrides |-> <<>>] :
        w \in {<<sIfEntry>>, <<sGhost>>},
        l \in {<<>>, <<[OldIndex |-> sIfIndex, NewIndex |-> sGhost]>>}}

ModuleNames == {"if_mib", "if_x", "other"}

----------------------------------------------------------------------------
(* The run                                                                 *)

\* main: nodes := GetMIBTree(); nameToNode := PrepareTree(nodes)
MainPrepareTree ==
    /\ pc = "main"
    /\ LET r == PrepareTree(nodes)
       IN  /\ nodes' = r.nodes
           /\ nameToNode' = r.nameToNode
    /\ pc' = "generate"
    /\ UNCHANGED <<cfg, fatal, outputConfig, written, oidsIn, oidsOut>>

\* One iteration of GenerateConfig's loop over cfg.Modules, on a module the
\* range has not yet produced: generateConfigModule returns the Module, or
\* log.Fatalf ends the run.  WalkParams is copied through and left out.
GenerateModule(name) ==
    /\ pc = "generate"
    /\ name \in DOMAIN cfg \ DOMAIN outputConfig
    /\ \E keys \in Orders(DOMAIN cfg[name].Overrides) :
           LET st == GenerateMetrics(cfg[name], nodes, nameToNode, keys)
           IN  \/ /\ st.fatal # ""
                  /\ pc' = "fatal"
                  /\ fatal' = st.fatal
                  /\ UNCHANGED outputConfig
               \/ /\ st.fatal = ""
                  /\ \E oids \in Orders(st.needToWalk) :
                         outputConfig' =
                             (name :> FinishModule(st, oids)) @@ outputConfig
                  /\ UNCHANGED <<pc, fatal>>
    /\ UNCHANGED <<nodes, nameToNode, cfg, written, oidsIn, oidsOut>>

\* What marshalling, re-parsing, creating and writing can come to.
WriteOutcomes ==
    {"", "Error marshalling yml", "Error parsing generated config",
     "Error opening output file", "Error writing to output file"}

\* The end of GenerateConfig, after the loop: the output is marshalled,
\* parsed back, and written to the output file.
WriteOutput ==
    /\ pc = "generate"
    /\ DOMAIN outputConfig = DOMAIN cfg
    /\ \E outcome \in WriteOutcomes :
           /\ fatal' = outcome
           /\ pc' = IF outcome = "" THEN "done" ELSE "fatal"
           /\ written' = (outcome \in {"", "Error writing to output file"})
    /\ UNCHANGED <<nodes, nameToNode, cfg, outputConfig, oidsIn, oidsOut>>

Next ==
    \/ MainPrepareTree
    \/ \E name \in ModuleNames : GenerateModule(name)
    \/ WriteOutput

\* Runs over one module with a configuration of GenModuleConfigs.
InitGen ==
    /\ nodes \in GenTrees
    /\ nameToNode = <<>>
    /\ cfg \in [{"if_mib"} -> GenModuleConfigs]
    /\ pc = "main"
    /\ fatal = ""
    /\ outputConfig = <<>>
    /\ written = FALSE
    /\ oidsIn = <<>>
    /\ oidsOut = <<>>

SpecGen == InitGen /\ [][Next]_vars

\* Runs over any number of modules with configurations of RunModuleConfigs.
Init ==
    /\ nodes \in GenTrees
    /\ nameToNode = <<>>
    /\ cfg \in UNION {[names -> RunModuleConfigs] : names \in SUBSET ModuleNames}
    /\ pc = "main"
    /\ fatal = ""
    /\ outputConfig = <<>>
    /\ written = FALSE
    /\ oidsIn = <<>>
    /\ oidsOut = <<>>

Spec == Init /\ [][Next]_vars

InitPrep ==
    /\ nodes \in PrepTrees
    /\ nameToNode = <<>>
    /\ cfg = NoConfig
    /\ pc = "main"
    /\ fatal = ""
    /\ outputConfig = <<>>
    /\ written = FALSE
    /\ oidsIn = <<>>
    /\ oidsOut = <<>>

NextPrep == MainPrepareTree

SpecPrep == InitPrep /\ [][NextPrep]_vars

----------------------------------------------------------------------------
(* Claims about PrepareTree                                                *)

IsChild(tree, p, c) == c \in Range(tree[p].Children)

RECURSIVE Descendants(_, _)
Descendants(tree, n) ==
    Range(tree[n].Children) \cup
    UNION {Descendants(tree, c) : c \in Range(tree[n].Children)}

ProperAncestors(tree, n) == {a \in DOMAIN tree : n \in Descendants(tree, a)}

\* The node's declared indexes with each "INTEGER" replaced by its label.
SelfCorrected(node) ==
    [k \in 1..Len(node.Indexes) |->
        IF node.Indexes[k] = sINTEGER THEN node.Label ELSE node.Indexes[k]]

\* n has an AUGMENTS clause that the Name Index resolves.
Augmenting(tree, names, n) ==
    tree[n].Augments # <<>> /\ tree[n].Augments \in DOMAIN names

\* B and B's direct children end with A's self-corrected indexes.
AugmentedAs(before, after, B, A) ==
    /\ after[B].Indexes = SelfCorrected(before[A])
    /\ \A c \in Range(before[B].Children) :
           after[c].Indexes = SelfCorrected(before[A])

\* C6 as stated: after PrepareTree every node B whose augments label resolves
\* to a node A has A's self-corrected indexes, and so has every direct child
\* of B, wherever A and B sit in the tree.
C6_AugmentsEverywhere ==
    [][pc = "main" =>
        \A B \in DOMAIN nodes :
            Augmenting(nodes, nameToNode', B) =>
                AugmentedAs(nodes, nodes', B, nameToNode'[nodes[B].Augments])]_vars

\* The positions in which the later passes leave B's copy alone: A's list is
\* not itself replaced by the augmentation pass, no list is pushed down onto
\* B from above, and no child of B replaces its own list.
C6_Undisturbed(tree, names, B, A) ==
    /\ ~Augmenting(tree, names, A)
    /\ \A p \in DOMAIN tree : IsChild(tree, p, A) => ~Augmenting(tree, names, p)
    /\ \A p \in ProperAncestors(tree, B) :
           tree[p].Indexes = <<>> /\ ~Augmenting(tree, names, p)
    /\ \A c \in Range(tree[B].Children) : ~Augmenting(tree, names, c)

\* C6 amended: after PrepareTree every node B whose augments label resolves
\* to a node A has A's self-corrected indexes, and so has every direct child
\* of B, provided neither A nor A's parent is an augmenting node with a
\* resolvable target, no proper ancestor of B declares indexes or is such an
\* augmenting node, and no child of B is such an augmenting node; A's parent
\* may have indexes of its own.
C6_AugmentsUndisturbed ==
    [][pc = "main" =>
        \A B \in DOMAIN nodes :
            LET A == nameToNode'[nodes[B].Augments]
            IN  (Augmenting(nodes, nameToNode', B)
                 /\ C6_Undisturbed(nodes, nameToNode', B, A)) =>
                    AugmentedAs(nodes, nodes', B, A)]_vars

\* C6 witness: a prepared tree in which ifXEntry augments ifEntry, ifEntry is
\* no augmenting node and sits under a table with indexes of its own, and
\* ifXEntry and its column carry ifEntry's self-corrected list.
C6_Witness ==
    /\ pc = "generate"
    /\ nodes[6].Augments = sIfEntry
    /\ nodes[3].Augments = <<>>
    /\ nodes[7].Augments = <<>>
    /\ nodes[2].Indexes = <<sIfTable, sIfIndex>>
    /\ nodes[6].Indexes = <<sIfEntry, sIfIndex>>
    /\ nodes[7].Indexes = <<sIfEntry, sIfIndex>>

----------------------------------------------------------------------------
(* minimizeOids on its own                                                 *)

MaxSegs == 3
MaxOids == 3

\* The segments OIDs are built of: "2" and "20" differ by a digit, not a dot.
SegPool == {<<"2">>, <<"2", "0">>}

RECURSIVE OidsOfDepth(_)
OidsOfDepth(d) ==
    IF d = 1 THEN SegPool
    ELSE {o \o <<".">> \o seg : o \in OidsOfDepth(d - 1), seg \in SegPool}

OidPool == UNION {OidsOfDepth(d) : d \in 1..MaxSegs}

InitMin ==
    /\ nodes = <<>>
    /\ nameToNode = <<>>
    /\ cfg = NoConfig
    /\ pc = "minimize"
    /\ fatal = ""
    /\ outputConfig = <<>>
    /\ written = FALSE
    /\ oidsIn \in SeqsUpTo(OidPool, MaxOids)
    /\ oidsOut = <<>>

MinimizeCall ==
    /\ pc = "minimize"
    /\ oidsOut' = minimizeOids(oidsIn)
    /\ pc' = "minimized"
    /\ UNCHANGED <<nodes, nameToNode, cfg, fatal, outputConfig, written, oidsIn>>

NextMin == MinimizeCall

SpecMin == InitMin /\ [][NextMin]_vars

\* The stand-alone calls of minimizeOids together with the runs over one
\* module, whose walk lists minimizeOids produces.
InitMinGen == InitMin \/ InitGen

NextMinGen == MinimizeCall \/ Next

SpecMinGen == InitMinGen /\ [][NextMinGen]_vars

\* a is b or lies below b: a + "." starts with b + ".".
DottedUnder(a, b) == HasPrefix(a \o <<".">>, b \o <<".">>)

Antichain(oids) ==
    \A i, j \in 1..Len(oids) :
        i # j => oids[i] # oids[j] /\ ~DottedUnder(oids[j], oids[i])

\* C4: for every collection of well-formed OIDs, duplicates allowed, the
\* output of minimizeOids has no repeated element and no element that is a
\* dotted prefix of another, and so has the walk list of every generated
\* Module.
C4_MinimizedAntichain ==
    /\ pc = "minimized" => Antichain(oidsOut)
    /\ \A name \in DOMAIN outputConfig : Antichain(outputConfig[name].Walk)

\* C4 witness: a call whose input holds an OID twice and an OID below it and
\* whose output is shorter than its input.
C4_Witness ==
    /\ pc = "minimized"
    /\ \E i, j, k \in 1..Len(oidsIn) :
           /\ i # j /\ oidsIn[i] = oidsIn[j]
           /\ oidsIn[k] # oidsIn[i] /\ DottedUnder(oidsIn[k], oidsIn[i])
    /\ Len(oidsOut) < Len(oidsIn)

\* C5: the output of minimizeOids is a subset of its input, and every input
\* OID is in the output or lies below exactly one output element, the prefix
\* taken on segment boundaries.
C5_MinimizedCovers ==
    pc = "minimized" =>
        /\ Range(oidsOut) \subseteq Range(oidsIn)
        /\ \A x \in Range(oidsIn) :
               \/ x \in Range(oidsOut)
               \/ Cardinality({o \in Range(oidsOut) : o # x /\ DottedUnder(x, o)}) = 1

\* C5 witness: a call on "2", "2.2" and "20": "2.2" is dropped and covered
\* by "2", "20" is kept.
C5_Witness ==
    /\ pc = "minimized"
    /\ Range(oidsIn) = {<<"2">>, <<"2", ".", "2">>, <<"2", "0">>}
    /\ Range(oidsOut) = {<<"2">>, <<"2", "0">>}

----------------------------------------------------------------------------
(* Claims about the run and the modules it generates                       *)

Generated == DOMAIN outputConfig

NodeOfOid(oid) == CHOOSE n \in DOMAIN nodes : nodes[n].Oid = oid

Resolvable(name) == name \in DOMAIN nameToNode

\* C1: no write of the output file occurs unless every configured module
\* was generated, none is generated from a walk list with an entry that is
\* neither an OID nor a label of the Name Index, and a run that module
\* generation ended has written nothing.
C1_WriteOnlyAfterAllModules ==
    /\ written =>
           \A name \in DOMAIN cfg :
               /\ name \in Generated
               /\ \A k \in 1..Len(cfg[name].Walk) : Resolvable(cfg[name].Walk[k])
    /\ fatal \in {"Cannot find oid", "Unknown index", "Unknown index type"} =>
           ~written

\* C1 witness: a run ended by an unresolvable walk entry after another
\* module had been generated, with nothing written.
C1_Witness ==
    /\ pc = "fatal"
    /\ fatal = "Cannot find oid"
    /\ Generated # {}
    /\ ~written

\* The lookup rule has a target that is no name of the Name Index, or one of
\* a node whose type has no output kind.
BadLookupTarget(rule) ==
    \/ ~Resolvable(rule.NewIndex)
    \/ ~metricType(nodes[nameToNode[rule.NewIndex]].Type).ok

\* The labelname of an index declared as label once the first k rules have
\* been applied in order.
RECURSIVE LabelAfter(_, _, _)
LabelAfter(label, rules, k) ==
    IF k = 0 THEN label
    ELSE LET cur == LabelAfter(label, rules, k - 1)
         IN  IF cur = rules[k].OldIndex /\ Resolvable(rules[k].NewIndex)
             THEN sanitizeLabelName(nodes[nameToNode[rules[k].NewIndex]].Label)
             ELSE cur

\* Rule k of rules meets, at its turn, an index of metric whose labelname is
\* the rule's oldIndex.
MatchedAtItsTurn(metric, rules, k) ==
    \E label \in Range(nodes[NodeOfOid(metric.Oid)].Indexes) :
        LabelAfter(label, rules, k - 1) = rules[k].OldIndex

\* C2 as stated: no Module is returned for a ModuleConfig that contains a
\* lookup rule whose newIndex does not resolve or resolves to a node whose
\* type has no output kind, whatever the walk produces.
C2_BadLookupAlwaysFatal ==
    \A name \in Generated :
        \A k \in 1..Len(cfg[name].Lookups) : ~BadLookupTarget(cfg[name].Lookups[k])

\* C2 amended: no Module is returned for a ModuleConfig that contains a
\* lookup rule whose newIndex does not resolve, or resolves to a node whose
\* type has no output kind, if at the rule's turn some metric has an index
\* whose labelname equals the rule's oldIndex; a rule that no index matches
\* is never resolved and aborts nothing.
C2_MatchedBadLookupFatal ==
    \A name \in Generated :
        \A k \in 1..Len(cfg[name].Lookups) :
            BadLookupTarget(cfg[name].Lookups[k]) =>
                \A j \in 1..Len(outputConfig[name].Metrics) :
                    ~MatchedAtItsTurn(outputConfig[name].Metrics[j],
                                      cfg[name].Lookups, k)

\* C2 witness: a run ended by a lookup rule whose target is no name of the
\* Name Index, the rule coming after one that was applied.
C2_Witness ==
    /\ pc = "fatal"
    /\ fatal = "Unknown index"
    /\ \E name \in DOMAIN cfg :
           /\ Len(cfg[name].Lookups) = 2
           /\ ~BadLookupTarget(cfg[name].Lookups[1])
           /\ ~Resolvable(cfg[name].Lookups[2].NewIndex)

IsSanitized(label) == \A k \in 1..Len(label) : label[k] \in ValidLabelChars

\* C3: in every Module returned, every metric name, every index labelname
\* and every lookup labelname contains only characters of [A-Za-z0-9_].
C3_AllLabelsSanitized ==
    \A name \in Generated :
        \A j \in 1..Len(outputConfig[name].Metrics) :
            LET metric == outputConfig[name].Metrics[j]
            IN  /\ IsSanitized(metric.Name)
                /\ \A k \in 1..Len(metric.Indexes) :
                       IsSanitized(metric.Indexes[k].Labelname)
                /\ \A k \in 1..Len(metric.Lookups) :
                       IsSanitized(metric.Lookups[k].Labelname)

OutputKinds ==
    {"gauge", "counter", "OctetString", "IpAddr", "InetAddress",
     "PhysAddress48", "DisplayString"}

\* The nodes whose Metric the claim puts in the module configured with c:
\* those in the subtree of a resolved walk root, of a type with an output
\* kind, of exposed access, every index label resolving to such a type.
MetricNodes(c) ==
    {n \in DOMAIN nodes :
        /\ \E k \in 1..Len(c.Walk) :
               LET root == nameToNode[c.Walk[k]]
               IN  n = root \/ n \in Descendants(nodes, root)
        /\ metricType(nodes[n].Type).ok
        /\ metricAccess(nodes[n].Access)
        /\ \A i \in 1..Len(nodes[n].Indexes) :
               /\ Resolvable(nodes[n].Indexes[i])
               /\ metricType(nodes[nameToNode[nodes[n].Indexes[i]]].Type).ok}

\* metric is the Metric of node n: its OID, its kind, and one index entry
\* per index label, typed in the node's index order.
MetricOf(metric, n) ==
    /\ metric.Oid = nodes[n].Oid
    /\ metric.Type = metricType(nodes[n].Type).t
    /\ metric.Type \in OutputKinds
    /\ Len(metric.Indexes) = Len(nodes[n].Indexes)
    /\ \A i \in 1..Len(nodes[n].Indexes) :
           metric.Indexes[i].Type =
               metricType(nodes[nameToNode[nodes[n].Indexes[i]]].Type).t

\* C7: the metric list of every generated Module holds exactly one Metric
\* for each node in the subtree of a resolved walk root that has a type with
\* an output kind, an exposed access and only indexes of classifiable type,
\* and no other Metric; the Metric carries the node's OID and kind and one
\* index entry per index label in the node's order.
C7_MetricsExactlyTheUsableNodes ==
    \A name \in Generated :
        LET metrics == outputConfig[name].Metrics
            usable == MetricNodes(cfg[name])
        IN  /\ \A n \in usable :
                   Cardinality({j \in 1..Len(metrics) : MetricOf(metrics[j], n)}) = 1
            /\ \A j \in 1..Len(metrics) :
                   \E n \in usable : MetricOf(metrics[j], n)

\* C7 witness: a module walking both 1.2 and 1.20 whose ifName is not
\* exposed: ifIndex and if-Descr have a Metric with one index each, ifName
\* has none.
C7_Witness ==
    /\ nodes[7].Access = "ACCESS_NOTIFY"
    /\ \E name \in Generated :
           /\ outputConfig[name].Walk = <<nodes[2].Oid, nodes[6].Oid>>
           /\ Len(outputConfig[name].Metrics) = 2
           /\ Len(outputConfig[name].Metrics[2].Indexes) = 1

\* Some sequence of the elements of S, each once.
SeqOf(S) == CHOOSE o \in Orders(S) : TRUE

\* The OIDs the claim has walked for the module: the resolved walk roots and
\* the OIDs of the lookups attached to its metrics.
NeededOids(c, module) ==
    {nodes[nameToNode[c.Walk[k]]].Oid : k \in 1..Len(c.Walk)} \cup
    UNION {{module.Metrics[j].Lookups[k].Oid :
               k \in 1..Len(module.Metrics[j].Lookups)} :
               j \in 1..Len(module.Metrics)}

CoveredBy(oid, walk) == \E k \in 1..Len(walk) : DottedUnder(oid, walk[k])

\* C8: the walk list of every generated Module is the minimized union of
\* the resolved walk roots and the OIDs of the lookup targets attached to a
\* metric, and every metric's OID and every Lookup record's OID is an element
\* of the walk list or lies below one.
C8_WalkCoversNeeded ==
    \A name \in Generated :
        LET module == outputConfig[name]
        IN  /\ module.Walk = minimizeOids(SeqOf(NeededOids(cfg[name], module)))
            /\ \A j \in 1..Len(module.Metrics) :
                   /\ CoveredBy(module.Metrics[j].Oid, module.Walk)
                   /\ \A k \in 1..Len(module.Metrics[j].Lookups) :
                          CoveredBy(module.Metrics[j].Lookups[k].Oid, module.Walk)

\* C8 witness: a module that walks ifEntry and whose lookups bring in ifName,
\* which lies under no walk root: the walk list is 1.2.1 and 1.20.1.
C8_Witness ==
    \E name \in Generated :
        /\ cfg[name].Walk = <<sIfEntry>>
        /\ outputConfig[name].Walk = <<nodes[3].Oid, nodes[7].Oid>>
        /\ \E j \in 1..Len(outputConfig[name].Metrics) :
               \E k \in 1..Len(outputConfig[name].Metrics[j].Lookups) :
                   outputConfig[name].Metrics[j].Lookups[k].Oid = nodes[7].Oid

\* The Lookup record the claim attaches for a rule that matched.
LookupRecord(rule) ==
    LET target == nodes[nameToNode[rule.NewIndex]]
    IN  [Labels |-> <<sanitizeLabelName(target.Label)>>,
         Labelname |-> sanitizeLabelName(target.Label),
         Type |-> metricType(target.Type).t,
         Oid |-> target.Oid]

\* The records rule k attaches to a metric with the declared index labels,
\* one per index that has the rule's oldIndex as labelname at the rule's turn.
RuleRecords(labels, rules, k) ==
    LET matched == SelectSeq(labels,
                       LAMBDA l : LabelAfter(l, rules, k - 1) = rules[k].OldIndex)
    IN  [i \in 1..Len(matched) |-> LookupRecord(rules[k])]

\* The records the first k rules attach, rule after rule.
RECURSIVE RecordsAfter(_, _, _)
RecordsAfter(labels, rules, k) ==
    IF k = 0 THEN <<>>
    ELSE RecordsAfter(labels, rules, k - 1) \o RuleRecords(labels, rules, k)

\* C9: lookup rules are applied in configuration order against the current
\* labelnames: in every generated Module each index has the labelname its
\* declared label comes to under the rules taken one after another, each
\* match has appended one Lookup record of the rule's target to the same
\* metric, in rule order, and the number and order of the indexes are those
\* of the node.
C9_LookupsInConfigurationOrder ==
    \A name \in Generated :
        \A j \in 1..Len(outputConfig[name].Metrics) :
            LET metric == outputConfig[name].Metrics[j]
                labels == nodes[NodeOfOid(metric.Oid)].Indexes
                rules == cfg[name].Lookups
            IN  /\ Len(metric.Indexes) = Len(labels)
                /\ \A i \in 1..Len(labels) :
                       metric.Indexes[i].Labelname =
                           LabelAfter(labels[i], rules, Len(rules))
                /\ metric.Lookups = RecordsAfter(labels, rules, Len(rules))

\* C9 witness: a module whose second rule matched only the labelname the
\* first rule had written: the index declared as ifIndex is named ifName and
\* its metric has the two Lookup records, if_Descr before ifName.
C9_Witness ==
    \E name \in Generated :
        /\ Len(cfg[name].Lookups) = 2
        /\ \E j \in 1..Len(outputConfig[name].Metrics) :
               LET metric == outputConfig[name].Metrics[j]
               IN  /\ nodes[NodeOfOid(metric.Oid)].Indexes = <<sIfIndex, sIfDescr>>
                   /\ metric.Indexes[1].Labelname = sIfName
                   /\ metric.Indexes[2].Labelname = sIfDescr
                   /\ Len(metric.Lookups) = 2
                   /\ metric.Lookups[1].Labelname = sanitizeLabelName(sIfDescr)
                   /\ metric.Lookups[2].Labelname = sIfName

\* C10: module generation is deterministic: every generated Module is the
\* one generateConfigModule returns in whatever order it ranges over the
\* overrides mapping and over the needed-OID set.
C10_Deterministic ==
    \A name \in Generated :
        \A keys \in Orders(DOMAIN cfg[name].Overrides) :
            LET st == GenerateMetrics(cfg[name], nodes, nameToNode, keys)
            IN  \A oids \in Orders(st.needToWalk) :
                    outputConfig[name] = FinishModule(st, oids)

====
